---- MODULE Spec2Model ----
(***************************************************************************)
(* A model of RadixSorter (radix_sort.cpp) and of radix_sort /             *)
(* counting_sort (radix_sort_chatgpt.cpp).                                 *)
(*                                                                         *)
(* An element is a pair <<value, tag>>.  The value is the integer the C++  *)
(* code sorts; the tag is the element's position in the caller's sequence. *)
(* The code never reads a tag (digit extraction takes the value only): it  *)
(* is carried along so that stability can be observed.                     *)
(*                                                                         *)
(* Memory is the record mem: the caller's range [begin, end), the vector   *)
(* copy and the vector temp of RadixSorter::operator().  A pointer of the  *)
(* code is a buffer name and an offset.                                    *)
(***************************************************************************)
EXTENDS Integers, Sequences, FiniteSets, TLC

VARIABLES Base, chatGpt, handleNegativeNumbers, input, mem, max_digits,
          stack, max, exp, passes, result, pc,
          arg_value, arg_power, ret_digits, ret_digit, ret_chatgpt_digit

\* The digit functions run one call at a time: the arguments value and power
\* of the call (get_digits works on its value in place), and what get_digits,
\* get_digit and get_digit<Base> returned (get_digits' local digits).
digitVars == <<arg_value, arg_power, ret_digits, ret_digit, ret_chatgpt_digit>>

vars == <<Base, chatGpt, handleNegativeNumbers, input, mem, max_digits,
          stack, max, exp, passes, result, pc, digitVars>>

\* ------------------------------------------------------------------ bounds

\* The iterations of a loop that are followed when Base = 1 keeps it from
\* ending.
MaxTurns == 4

\* The digit functions are called on values in -MaxArg .. MaxArg and place
\* values in 1 .. MaxPlace.
MaxArg == 12
MaxPlace == 13

\* The longest sequence a caller passes.
MaxLen == 3

\* Element values are drawn from -MaxVal .. MaxVal.
MaxVal == 3

\* The sorter is instantiated with Base in 2 .. MaxBase.
MaxBase == 3

\* The width in bits of the element type T when T is as wide as int64_t, the
\* type of a place value.  TLC's integers cannot hold 64-bit values: the
\* width is scaled down, T and the place value type staying equally wide.
ValueBits == 6

\* ------------------------------------------------------- C++ arithmetic

Abs(a) == IF a < 0 THEN -a ELSE a

\* The / of C++ on signed integers: the quotient truncated towards zero.
CDiv(a, b) ==
    IF (a >= 0) = (b > 0) THEN Abs(a) \div Abs(b) ELSE -(Abs(a) \div Abs(b))

\* The % of C++ on signed integers: the remainder has the dividend's sign.
CMod(a, b) == a - b * CDiv(a, b)

\* The width of size_t, the type of counting_sort's exp and of Base there.
SizeBits == 64

RECURSIVE Pow2Mod(_, _)
\* 2^n mod m, by repeated doubling (2^64 itself is not representable here).
Pow2Mod(n, m) == IF n = 0 THEN 1 % m ELSE (2 * Pow2Mod(n - 1, m)) % m

\* ((size_t) value / power) % b: what get_digit<Base> of radix_sort_chatgpt.cpp
\* computes once the usual arithmetic conversions have turned a signed value
\* into size_t (value + 2^SizeBits for a negative value).  Computed modulo
\* power * b, which keeps every intermediate result small.
UnsignedDigit(value, power, b) ==
    IF value >= 0
    THEN (value \div power) % b
    ELSE LET m == power * b
             u == (Pow2Mod(SizeBits, m) + (value % m)) % m
         IN  u \div power

\* ------------------------------------------------------------- elements

Val(e) == e[1]
Tag(e) == e[2]

\* The values of a buffer, in order.
Values(s) == [i \in 1..Len(s) |-> Val(s[i])]

\* A caller's sequence of plain values, each element tagged with its position.
Tagged(vs) == [i \in 1..Len(vs) |-> <<vs[i], i>>]

\* std::vector<T> temp(size): size value-initialised elements (tag 0: not an
\* element of the input).
ZeroVector(n) == [i \in 1..n |-> <<0, 0>>]

\* std::max / std::min folded over a sequence of values, from its first element.
RECURSIVE Accumulate(_, _, _)
Accumulate(vs, acc, greater) ==
    IF vs = <<>> THEN acc
    ELSE LET v == Head(vs)
             pick == IF greater THEN (IF acc < v THEN v ELSE acc)
                                ELSE (IF v < acc THEN v ELSE acc)
         IN  Accumulate(Tail(vs), pick, greater)

\* ------------------------------------------- RadixSorter's digit arithmetic

RECURSIVE DigitsLoop(_, _)
\* while (value >= Base) { value /= Base; ++digits; }
DigitsLoop(value, digits) ==
    IF value >= Base THEN DigitsLoop(CDiv(value, Base), digits + 1) ELSE digits

\* get_digits without the ++digits that goes with the first division of a
\* negative value.
get_digits_no_increment(value) ==
    IF value < 0
    THEN IF value > -Base THEN 1
         ELSE DigitsLoop(-1 * CDiv(value, Base), 1)
    ELSE DigitsLoop(value, 1)

\* RadixSorter::get_digits: the number of base-Base digits of |value|.  A
\* negative value is divided by Base before it is negated.
get_digits(value) ==
    IF value < 0
    THEN IF value > -Base THEN 1
         ELSE DigitsLoop(-1 * CDiv(value, Base), 2)
    ELSE DigitsLoop(value, 1)

\* A place value one power of Base above get_power's.
get_power_one_more(n) == Base ^ (n + 1)

\* A place value one power of Base below get_power's.
get_power_one_less(n) == Base ^ (n - 1)

RECURSIVE get_power(_)
\* RadixSorter::get_power: Base^n by repeated multiplication.
get_power(n) == IF n > 0 THEN Base * get_power(n - 1) ELSE 1

\* get_digit without the division by power: every place value yields the
\* lowest digit.
get_digit_no_power(value, power) ==
    IF handleNegativeNumbers
    THEN IF value < 0 THEN Base - CMod(CDiv(value, -1), Base)
                      ELSE Base + CMod(value, Base)
    ELSE CMod(value, Base)

\* get_digit whose negative branch adds the digit of the magnitude instead of
\* subtracting it.
get_digit_no_mirror(value, power) ==
    IF handleNegativeNumbers
    THEN IF value < 0 THEN Base + CMod(CDiv(value, -power), Base)
                      ELSE Base + CMod(CDiv(value, power), Base)
    ELSE CMod(CDiv(value, power), Base)

\* get_digit without the bias by Base of the negative mode.
get_digit_no_bias(value, power) == CMod(CDiv(value, power), Base)

\* RadixSorter::get_digit: the digit of value at place value power, biased by
\* Base when handleNegativeNumbers is set.
get_digit(value, power) ==
    IF handleNegativeNumbers
    THEN IF value < 0 THEN Base - CMod(CDiv(value, -power), Base)
                      ELSE Base + CMod(CDiv(value, power), Base)
    ELSE CMod(CDiv(value, power), Base)

\* get_digit<Base> of radix_sort_chatgpt.cpp, called with a size_t power.
chatgpt_get_digit(value, power) == UnsignedDigit(value, power, Base)

\* ------------------------------------------------- one pass of helper

\* The index set of std::array<size_t, Base * 2>.
Buckets == 0 .. (2 * Base - 1)

\* The partition data[0 .. size) of a helper call: buf[off + 1 .. off + size].
Range(buf, off, size) == [k \in 1..size |-> buf[off + k]]

\* "count them": counts[get_digit(data[i], power)] += 1 for each i.
CountDigits(part, power) ==
    [d \in Buckets |->
        Cardinality({k \in 1..Len(part) : get_digit(Val(part[k]), power) = d})]

RECURSIVE SumBelow(_, _)
SumBelow(counts, i) == IF i = 0 THEN 0 ELSE counts[i - 1] + SumBelow(counts, i - 1)

\* "compute range starts": positions[i] = position; position += counts[i].
RangeStarts(counts) == [d \in Buckets |-> SumBelow(counts, d)]

RECURSIVE PlaceInRangesNoAdvance(_, _, _, _, _)
\* "place them in ranges" without current_position[digit] += 1.
PlaceInRangesNoAdvance(part, power, k, current_position, out) ==
    IF k > Len(part) THEN out
    ELSE LET d == part[k]
             digit == get_digit(Val(d), power)
         IN  PlaceInRangesNoAdvance(part, power, k + 1, current_position,
                 [out EXCEPT ![current_position[digit] + 1] = d])

RECURSIVE PlaceInRanges(_, _, _, _, _)
\* "place them in ranges": for i = k .. size - 1, in this order,
\*   temp[current_position[digit]] = data[i]; current_position[digit] += 1.
\* out is the temp partition (1-based), part the data partition.
PlaceInRanges(part, power, k, current_position, out) ==
    IF k > Len(part) THEN out
    ELSE LET d == part[k]
             digit == get_digit(Val(d), power)
         IN  PlaceInRanges(part, power, k + 1,
                 [current_position EXCEPT ![digit] = @ + 1],
                 [out EXCEPT ![current_position[digit] + 1] = d])

\* part written from the start of the buffer, whatever the offset.
WriteRangeNoOffset(buf, off, part) ==
    [k \in 1..Len(buf) |-> IF k <= Len(part) THEN part[k] ELSE buf[k]]

\* buf with buf[off + 1 .. off + Len(part)] overwritten by part.
WriteRange(buf, off, part) ==
    [k \in 1..Len(buf) |->
        IF k > off /\ k <= off + Len(part) THEN part[k - off] ELSE buf[k]]

\* Every digit of the partition indexes inside counts / positions.
DigitsInRange(part, power) ==
    \A k \in 1..Len(part) : get_digit(Val(part[k]), power) \in Buckets

\* The scatter of one helper call: the temp partition after "count them",
\* "compute range starts" and "place them in ranges" over the data partition.
Scatter(part, old, power) ==
    PlaceInRanges(part, power, 1, RangeStarts(CountDigits(part, power)), old)

\* ------------------------------------------------ counting_sort, radix_sort

\* The index set of counting_sort's std::array<size_t, Base>.
Digits == 0 .. (Base - 1)

\* "Count them, by digit and overall."
CountByDigit(s, e) ==
    [d \in Digits |->
        Cardinality({k \in 1..Len(s) : chatgpt_get_digit(Val(s[k]), e) = d})]

RECURSIVE SumUpTo(_, _)
SumUpTo(counts, i) == IF i = 0 THEN counts[0] ELSE counts[i] + SumUpTo(counts, i - 1)

\* "Change counts to ending positions": counts[i] += counts[i - 1], i = 1 ..
EndingPositions(counts) == [d \in Digits |-> SumUpTo(counts, d)]

RECURSIVE PlaceBackwards(_, _, _, _, _)
RECURSIVE PlaceForwards(_, _, _, _, _)
RECURSIVE PlaceBackwardsNoDecrement(_, _, _, _, _)
\* The backward walk with temp[counts[digit] - 1] = data: the ending position
\* is used and not moved.
PlaceBackwardsNoDecrement(s, e, k, counts, out) ==
    IF k = 0 THEN out
    ELSE LET data == s[k]
             digit == chatgpt_get_digit(Val(data), e)
         IN  PlaceBackwardsNoDecrement(s, e, k - 1, counts,
                 [out EXCEPT ![counts[digit]] = data])

\* "Place elements in array, going backwards": for the elements from *--end,
\* k = size down to 1:  temp[counts[digit] -= 1] = data.
PlaceBackwards(s, e, k, counts, out) ==
    IF k = 0 THEN out
    ELSE LET data == s[k]
             digit == chatgpt_get_digit(Val(data), e)
         IN  PlaceBackwards(s, e, k - 1,
                 [counts EXCEPT ![digit] = @ - 1],
                 [out EXCEPT ![counts[digit]] = data])

\* The walk of counting_sort from the first element to the last, with the
\* same ending positions.
PlaceForwards(s, e, k, counts, out) ==
    IF k > Len(s) THEN out
    ELSE LET data == s[k]
             digit == chatgpt_get_digit(Val(data), e)
         IN  PlaceForwards(s, e, k + 1,
                 [counts EXCEPT ![digit] = @ - 1],
                 [out EXCEPT ![counts[digit]] = data])

\* counting_sort walking forwards.
counting_sort_forwards(s, e) ==
    IF Len(s) < 2 THEN s
    ELSE PlaceForwards(s, e, 1, EndingPositions(CountByDigit(s, e)),
                       ZeroVector(Len(s)))

\* counting_sort<Base>(begin, end, exp, ...): the content of [begin, end) when
\* it returns.  temp is its local std::vector<T> temp(size), copied back.
counting_sort(s, e) ==
    IF Len(s) < 2 THEN s
    ELSE PlaceBackwards(s, e, Len(s), EndingPositions(CountByDigit(s, e)),
                        ZeroVector(Len(s)))

\* The loop condition of radix_sort as it was (unnamed/part_000):
\* while ((max / exp) > 0), exp a size_t.  max is converted to size_t for the
\* division; a negative max becomes max + 2^SizeBits, which is above every
\* place value reached here.
OriginalLoopCondition(m, e) == IF m >= 0 THEN (m \div e) > 0 ELSE TRUE

RECURSIVE OriginalPasses(_, _)
\* The passes the loop of part_000 makes from place value e on:
\* while ((max / exp) > 0) { counting_sort<Base>(...); exp *= Base; }
OriginalPasses(m, e) ==
    IF OriginalLoopCondition(m, e) THEN 1 + OriginalPasses(m, e * Base) ELSE 0

\* The loop condition with > for >=.
LoopConditionStrict(m, e) == m > e

\* The loop condition of radix_sort, as changed: while (max >= exp).
LoopCondition(m, e) == m >= e

\* exp left as it is.
NextExpStuck(e) == e

\* exp *= Base.
NextExp(e) == e * Base

RECURSIVE PassLoop(_, _, _)
\* while (max >= exp) { counting_sort<Base>(begin, end, exp, *begin); exp *= Base; }
PassLoop(s, m, e) ==
    IF LoopCondition(m, e) THEN PassLoop(counting_sort(s, e), m, NextExp(e)) ELSE s

\* radix_sort<Base>(begin, end): the content of [begin, end) when it returns.
radix_sort(s) ==
    IF Len(s) < 2 THEN s
    ELSE PassLoop(s, Accumulate(Values(s), Val(s[1]), TRUE), 1)

\* ------------------------------------------------ helper, as a recursion

IsOdd(n) == n % 2 = 1

\* The base case copying on odd max_digits.
BaseCaseCopiesOdd(md) == IsOdd(md)

\* The base case of helper: "if (!(max_digits & 1)) std::copy(data, data + size, temp)".
BaseCaseCopies(md) == ~IsOdd(md)

RECURSIVE helper(_, _, _, _, _, _, _)
RECURSIVE HelperLoop(_, _, _, _, _, _, _, _, _)
\* RadixSorter::helper(data, temp, size, max_digits, power) on the memory m,
\* with data and temp pointing at offset off of the buffers named data and
\* temp: the memory when the call returns.
helper(m, data, temp, off, size, md, power) ==
    IF size >= 2 /\ power >= 1
    THEN LET part == Range(m[data], off, size)
             counts == CountDigits(part, power)
             placed == [m EXCEPT ![temp] =
                          WriteRange(@, off, Scatter(part, Range(@, off, size), power))]
         IN  IF power > 1
             THEN HelperLoop(placed, data, temp, off, RangeStarts(counts), counts,
                             0, md, power)
             ELSE placed
    ELSE IF BaseCaseCopies(md)
         THEN [m EXCEPT ![temp] = WriteRange(@, off, Range(m[data], off, size))]
         ELSE m

\* for (i = 0; i < Base * 2; ++i)
\*     helper(temp + positions[i], data + positions[i], counts[i],
\*            max_digits - 1, power / Base);
HelperLoop(m, data, temp, off, positions, counts, i, md, power) ==
    IF i >= 2 * Base THEN m
    ELSE HelperLoop(helper(m, temp, data, off + positions[i], counts[i],
                           md - 1, CDiv(power, Base)),
                    data, temp, off, positions, counts, i + 1, md, power)

\* ------------------------------------------------ RadixSorter::operator()

\* max_digits of operator(): get_digits(max), or with handleNegativeNumbers
\* std::max(get_digits(min), get_digits(max)).
MaxDigits(s) ==
    LET hi == get_digits(Accumulate(Values(s), Val(s[1]), TRUE))
        lo == get_digits(Accumulate(Values(s), Val(s[1]), FALSE))
    IN  IF handleNegativeNumbers THEN (IF lo > hi THEN lo ELSE hi) ELSE hi

\* radix_sort handed the caller's own range: begin, end.
RadixSortInPlace == "caller"

\* The range operator() hands to radix_sort: copy.begin(), copy.end().
RadixSortRange == "copy"

\* The buffers operator() hands to the top-level helper call: &copy[0], &temp[0].
HelperData == "copy"
HelperTemp == "temp"

\* The returned buffer with the parity the other way round.
ReturnedBufferSwapped(md) == IF IsOdd(md) THEN "temp" ELSE "copy"

\* "return (max_digits & 1) ? copy : temp".
ReturnedBuffer(md) == IF IsOdd(md) THEN "copy" ELSE "temp"

\* The memory after std::vector<T> copy(begin, end) for the caller's range s.
Copied(s) == [caller |-> s, copy |-> s, temp |-> <<>>]

\* RadixSorter::operator()(begin, end) as a function: the returned vector for
\* the caller's (tagged) range s, with the flag chatGpt = cg.
RadixSorter(s, cg) ==
    IF Len(s) < 2 THEN s
    ELSE IF cg
    THEN [Copied(s) EXCEPT ![RadixSortRange] = radix_sort(@)].copy
    ELSE LET md == MaxDigits(s)
             m0 == [Copied(s) EXCEPT !.temp = ZeroVector(Len(s))]
             m1 == helper(m0, HelperData, HelperTemp, 0, Len(s), md, get_power(md))
         IN  m1[ReturnedBuffer(md)]

\* ------------------------------------------------------ the state machine

\* What a caller may pass.  main keeps to the sorter's contract: elements are
\* negative only when handleNegativeNumbers is set, and chatGpt clears
\* handleNegativeNumbers.
Elements(cg, hn) == IF hn /\ ~cg THEN (-MaxVal)..MaxVal ELSE 0..MaxVal

Flags == {<<FALSE, FALSE>>, <<FALSE, TRUE>>, <<TRUE, FALSE>>}

Inputs(cg, hn) == UNION {[1..n -> Elements(cg, hn)] : n \in 0..MaxLen}

ZeroArray == [d \in Buckets |-> 0]

\* The activation record of a helper call whose body has not run yet.
Frame(data, temp, off, size, md, power) ==
    [data |-> data, temp |-> temp, off |-> off, size |-> size,
     max_digits |-> md, power |-> power,
     entered |-> FALSE, i |-> 0, positions |-> ZeroArray, counts |-> ZeroArray]

Top == stack[Len(stack)]

\* A returning call that leaves its activation record where it is.
PopKeepsFrame == stack

\* The stack once the running call has returned.
Pop == SubSeq(stack, 1, Len(stack) - 1)

\* A RadixSorter as constructed (chatGpt = false, handleNegativeNumbers =
\* false), no call made yet.
Constructed ==
    /\ chatGpt = FALSE
    /\ handleNegativeNumbers = FALSE
    /\ input = <<>>
    /\ mem = Copied(<<>>)
    /\ max_digits = 0
    /\ stack = <<>>
    /\ max = 0
    /\ exp = 0
    /\ passes = 0
    /\ result = <<>>
    /\ pc = "idle"
    /\ arg_value = 0
    /\ arg_power = 1
    /\ ret_digits = 0
    /\ ret_digit = 0
    /\ ret_chatgpt_digit = 0

Init ==
    /\ Base \in 2..MaxBase
    /\ Constructed

\* The caller sets the flags and calls operator()(begin, end); the call
\* starts with std::vector<T> copy(begin, end).
Call ==
    /\ pc = "idle"
    /\ \E f \in Flags : \E vs \in Inputs(f[1], f[2]) :
          /\ chatGpt' = f[1]
          /\ handleNegativeNumbers' = f[2]
          /\ input' = Tagged(vs)
          /\ mem' = Copied(Tagged(vs))
    /\ passes' = 0
    /\ pc' = "operator"
    /\ UNCHANGED <<Base, max_digits, stack, max, exp, result, digitVars>>

\* size < 2: operator() returns copy (radix_sort returns before its loop).
ReturnSmall ==
    /\ pc = "operator"
    /\ Len(mem.copy) < 2
    /\ result' = mem.copy
    /\ pc' = "done"
    /\ UNCHANGED <<Base, chatGpt, handleNegativeNumbers, input, mem, max_digits,
                   stack, max, exp,
                   passes, digitVars>>

\* chatGpt: radix_sort<Base>(copy.begin(), copy.end()) up to its loop.
EnterRadixSort ==
    /\ pc = "operator"
    /\ chatGpt
    /\ Len(mem.copy) >= 2
    /\ max' = Accumulate(Values(mem[RadixSortRange]), Val(mem[RadixSortRange][1]), TRUE)
    /\ exp' = 1
    /\ pc' = "radix_sort"
    /\ UNCHANGED <<Base, chatGpt, handleNegativeNumbers, input, mem, max_digits,
                   stack, result,
                   passes, digitVars>>

\* One iteration of radix_sort's loop.
CountingSortPass ==
    /\ pc = "radix_sort"
    /\ LoopCondition(max, exp)
    /\ mem' = [mem EXCEPT ![RadixSortRange] = counting_sort(@, exp)]
    /\ exp' = NextExp(exp)
    /\ passes' = passes + 1
    /\ UNCHANGED <<Base, chatGpt, handleNegativeNumbers, input, max_digits,
                   stack, max, result, pc, digitVars>>

\* radix_sort's loop ends and operator() returns copy.
RadixSortReturn ==
    /\ pc = "radix_sort"
    /\ ~LoopCondition(max, exp)
    /\ result' = mem.copy
    /\ pc' = "done"
    /\ UNCHANGED <<Base, chatGpt, handleNegativeNumbers, input, mem, max_digits,
                   stack, max, exp,
                   passes, digitVars>>

\* !chatGpt, size >= 2: temp is allocated, max_digits computed and the
\* top-level helper call made.
EnterHelper ==
    /\ pc = "operator"
    /\ ~chatGpt
    /\ Len(mem.copy) >= 2
    /\ LET md == MaxDigits(mem.copy)
       IN  /\ max_digits' = md
           /\ stack' = <<Frame(HelperData, HelperTemp, 0, Len(mem.copy), md,
                               get_power(md))>>
    /\ mem' = [mem EXCEPT !.temp = ZeroVector(Len(mem.copy))]
    /\ pc' = "helper"
    /\ UNCHANGED <<Base, chatGpt, handleNegativeNumbers, input, max, exp, result,
                   passes, digitVars>>

\* helper with size >= 2 && power >= 1: count, compute range starts, place in
\* ranges; with power > 1 the loop over the buckets follows, else it returns.
HelperPartition ==
    /\ pc = "helper"
    /\ stack # <<>>
    /\ ~Top.entered
    /\ Top.size >= 2 /\ Top.power >= 1
    /\ LET f == Top
           part == Range(mem[f.data], f.off, f.size)
           counts == CountDigits(part, f.power)
       IN  /\ DigitsInRange(part, f.power)
           /\ mem' = [mem EXCEPT ![f.temp] =
                        WriteRange(@, f.off,
                                   Scatter(part, Range(@, f.off, f.size), f.power))]
           /\ stack' = IF f.power > 1
                       THEN Append(Pop, [f EXCEPT !.entered = TRUE,
                                                  !.counts = counts,
                                                  !.positions = RangeStarts(counts)])
                       ELSE Pop
    /\ UNCHANGED <<Base, chatGpt, handleNegativeNumbers, input, max_digits,
                   max, exp, result, pc,
                   passes, digitVars>>

\* helper with size < 2 || power < 1: the last copy, when it is owed.
HelperBaseCase ==
    /\ pc = "helper"
    /\ stack # <<>>
    /\ ~Top.entered
    /\ ~(Top.size >= 2 /\ Top.power >= 1)
    /\ LET f == Top
       IN  mem' = IF BaseCaseCopies(f.max_digits)
                  THEN [mem EXCEPT ![f.temp] =
                          WriteRange(@, f.off, Range(mem[f.data], f.off, f.size))]
                  ELSE mem
    /\ stack' = Pop
    /\ UNCHANGED <<Base, chatGpt, handleNegativeNumbers, input, max_digits,
                   max, exp, result, pc,
                   passes, digitVars>>

\* One iteration of helper's loop over the buckets: the recursive call
\* helper(temp + offset, data + offset, counts[i], max_digits - 1, power / Base).
HelperRecurse ==
    /\ pc = "helper"
    /\ stack # <<>>
    /\ Top.entered
    /\ Top.i < 2 * Base
    /\ LET f == Top
       IN  stack' = Append(Append(Pop, [f EXCEPT !.i = @ + 1]),
                           Frame(f.temp, f.data, f.off + f.positions[f.i],
                                 f.counts[f.i], f.max_digits - 1,
                                 CDiv(f.power, Base)))
    /\ UNCHANGED <<Base, chatGpt, handleNegativeNumbers, input, mem, max_digits,
                   max, exp, result, pc,
                   passes, digitVars>>

\* helper's loop over the buckets is over: the call returns.
HelperReturn ==
    /\ pc = "helper"
    /\ stack # <<>>
    /\ Top.entered
    /\ Top.i >= 2 * Base
    /\ stack' = Pop
    /\ UNCHANGED <<Base, chatGpt, handleNegativeNumbers, input, mem, max_digits,
                   max, exp, result, pc,
                   passes, digitVars>>

\* The top-level helper call has returned: return (max_digits & 1) ? copy : temp.
OperatorReturn ==
    /\ pc = "helper"
    /\ stack = <<>>
    /\ result' = mem[ReturnedBuffer(max_digits)]
    /\ pc' = "done"
    /\ UNCHANGED <<Base, chatGpt, handleNegativeNumbers, input, mem, max_digits,
                   stack, max, exp,
                   passes, digitVars>>

\* The steps of a call of operator() that is under way.
Step ==
    \/ ReturnSmall
    \/ EnterRadixSort
    \/ CountingSortPass
    \/ RadixSortReturn
    \/ EnterHelper
    \/ HelperPartition
    \/ HelperBaseCase
    \/ HelperRecurse
    \/ HelperReturn
    \/ OperatorReturn

Next ==
    \/ Call
    \/ Step

Spec == Init /\ [][Next]_vars

\* The calls made are never starved: operator() is synchronous code that runs
\* each of its steps in turn.
FairSpec == Spec /\ WF_vars(Next)

\* --------------------------------------------- a caller outside the contract

\* RadixSorter's flags are public members and operator() checks neither them
\* nor the elements: a caller other than main may pass anything.
AnyFlags == BOOLEAN \X BOOLEAN

AnyInputs == UNION {[1..n -> (-MaxVal)..MaxVal] : n \in 0..MaxLen}

\* operator()(begin, end) called with any flags on any sequence.
CallAny ==
    /\ pc = "idle"
    /\ \E f \in AnyFlags : \E vs \in AnyInputs :
          /\ chatGpt' = f[1]
          /\ handleNegativeNumbers' = f[2]
          /\ input' = Tagged(vs)
          /\ mem' = Copied(Tagged(vs))
    /\ passes' = 0
    /\ pc' = "operator"
    /\ UNCHANGED <<Base, max_digits, stack, max, exp, result, digitVars>>

\* "count them" with a digit that is no index of counts: counts[digit] += 1 on
\* a std::array outside its bounds.  The behaviour is undefined from here on.
HelperOutOfBounds ==
    /\ pc = "helper"
    /\ stack # <<>>
    /\ ~Top.entered
    /\ Top.size >= 2 /\ Top.power >= 1
    /\ ~DigitsInRange(Range(mem[Top.data], Top.off, Top.size), Top.power)
    /\ pc' = "undefined"
    /\ UNCHANGED <<Base, chatGpt, handleNegativeNumbers, input, mem, max_digits,
                   stack, max, exp, result, passes, digitVars>>

\* One outcome of the undefined behaviour: the process is aborted (a build
\* with checked std::array indexing, a fault on the stray access).
UndefinedAbort ==
    /\ pc = "undefined"
    /\ pc' = "aborted"
    /\ UNCHANGED <<Base, chatGpt, handleNegativeNumbers, input, mem, max_digits,
                   stack, max, exp, result, passes, digitVars>>

\* What a buffer of n elements may hold once the behaviour is undefined:
\* elements of the input and value-initialised ones, in any arrangement.
AnyContents(n) ==
    [1..n -> {input[i] : i \in 1..Len(input)} \cup {<<0, 0>>}]

\* The other outcome: the stray accesses go unnoticed and operator() returns
\* a vector of the input's size with whatever the stray writes left in it.
UndefinedReturn ==
    /\ pc = "undefined"
    /\ result' \in AnyContents(Len(input))
    /\ pc' = "done"
    /\ UNCHANGED <<Base, chatGpt, handleNegativeNumbers, input, mem, max_digits,
                   stack, max, exp, passes, digitVars>>

OpenNext ==
    \/ CallAny
    \/ Step
    \/ HelperOutOfBounds
    \/ UndefinedAbort
    \/ UndefinedReturn

\* The sorter with a caller that does not keep to main's contract.
OpenSpec == Init /\ [][OpenNext]_vars

\* Such a caller choosing the LSD strategy.
ChatGptCallAny ==
    /\ CallAny
    /\ chatGpt'

ChatGptOpenNext ==
    \/ ChatGptCallAny
    \/ ReturnSmall
    \/ EnterRadixSort
    \/ CountingSortPass
    \/ RadixSortReturn

\* radix_sort with a caller that does not keep to main's contract.
ChatGptOpenSpec == Init /\ [][ChatGptOpenNext]_vars

\* ------------------------------------------------- the sorter with Base = 1

\* RadixSorter<T, 1> compiles: nothing in the class or in radix_sort checks
\* Base.  Its calls are followed with get_digits run one iteration at a time.
Base1Init ==
    /\ Base = 1
    /\ Constructed

\* main's call, with non-negative elements and handleNegativeNumbers clear.
Base1Call ==
    /\ pc = "idle"
    /\ \E cg \in BOOLEAN : \E vs \in Inputs(cg, FALSE) :
          /\ chatGpt' = cg
          /\ input' = Tagged(vs)
          /\ mem' = Copied(Tagged(vs))
    /\ passes' = 0
    /\ pc' = "operator"
    /\ UNCHANGED <<Base, handleNegativeNumbers, max_digits, stack, max, exp,
                   result, digitVars>>

\* One iteration of radix_sort's loop, followed for MaxTurns iterations.
Base1Pass ==
    /\ passes < MaxTurns
    /\ CountingSortPass

\* !chatGpt, size >= 2: temp is allocated, max computed and get_digits(max)
\* entered with digits{1}; max is not negative, "if (value < 0)" is skipped.
GetDigitsEnter ==
    /\ pc = "operator"
    /\ ~chatGpt /\ ~handleNegativeNumbers
    /\ Len(mem.copy) >= 2
    /\ mem' = [mem EXCEPT !.temp = ZeroVector(Len(mem.copy))]
    /\ max' = Accumulate(Values(mem.copy), Val(mem.copy[1]), TRUE)
    /\ arg_value' = max'
    /\ ret_digits' = 1
    /\ pc' = "get_digits"
    /\ UNCHANGED <<Base, chatGpt, handleNegativeNumbers, input, max_digits,
                   stack, exp, result, passes, arg_power, ret_digit,
                   ret_chatgpt_digit>>

\* while (value >= Base) { value /= Base; ++digits; }: one iteration,
\* followed for MaxTurns iterations.
GetDigitsLoop ==
    /\ pc = "get_digits"
    /\ arg_value >= Base
    /\ ret_digits <= MaxTurns
    /\ arg_value' = CDiv(arg_value, Base)
    /\ ret_digits' = ret_digits + 1
    /\ UNCHANGED <<Base, chatGpt, handleNegativeNumbers, input, mem, max_digits,
                   stack, max, exp, result, passes, pc, arg_power, ret_digit,
                   ret_chatgpt_digit>>

\* get_digits returns digits, and operator() makes the top-level helper call.
GetDigitsReturn ==
    /\ pc = "get_digits"
    /\ ~(arg_value >= Base)
    /\ max_digits' = ret_digits
    /\ stack' = <<Frame(HelperData, HelperTemp, 0, Len(mem.copy), ret_digits,
                        get_power(ret_digits))>>
    /\ pc' = "helper"
    /\ UNCHANGED <<Base, chatGpt, handleNegativeNumbers, input, mem, max, exp,
                   result, passes, digitVars>>

Base1Next ==
    \/ Base1Call
    \/ ReturnSmall
    \/ EnterRadixSort
    \/ Base1Pass
    \/ RadixSortReturn
    \/ GetDigitsEnter
    \/ GetDigitsLoop
    \/ GetDigitsReturn
    \/ HelperPartition
    \/ OperatorReturn

Base1Spec == Base1Init /\ [][Base1Next]_vars

\* ------------------------------------------- the digit functions, called

\* main (a friend of RadixSorter) calls get_digit, get_digits and
\* get_digit<Base> directly, one call after the other.

\* sort.handleNegativeNumbers = ...: the public flag get_digit reads.
SetHandleNegativeNumbers ==
    /\ pc = "idle"
    /\ handleNegativeNumbers' = ~handleNegativeNumbers
    /\ pc' = "idle"
    /\ UNCHANGED <<Base, chatGpt, input, mem, max_digits, stack, max, exp,
                   passes, result, digitVars>>

\* sort.get_digit(value, power).
GetDigit ==
    /\ pc = "idle"
    /\ \E v \in (-MaxArg)..MaxArg : \E p \in 1..MaxPlace :
          /\ arg_value' = v
          /\ arg_power' = p
          /\ ret_digit' = get_digit(v, p)
    /\ pc' = "get_digit"
    /\ UNCHANGED <<Base, chatGpt, handleNegativeNumbers, input, mem, max_digits,
                   stack, max, exp, passes, result, ret_digits,
                   ret_chatgpt_digit>>

\* get_digit<Base>(value, power) with the same arguments, power a size_t as
\* in counting_sort.
ChatGptGetDigit ==
    /\ pc = "get_digit"
    /\ ret_chatgpt_digit' = chatgpt_get_digit(arg_value, arg_power)
    /\ pc' = "chatgpt_get_digit"
    /\ UNCHANGED <<Base, chatGpt, handleNegativeNumbers, input, mem, max_digits,
                   stack, max, exp, passes, result, arg_value, arg_power,
                   ret_digits, ret_digit>>

\* sort.get_digits(value).
GetDigits ==
    /\ pc = "idle"
    /\ \E v \in (-MaxArg)..MaxArg :
          /\ arg_value' = v
          /\ ret_digits' = get_digits(v)
    /\ pc' = "get_digits_returned"
    /\ UNCHANGED <<Base, chatGpt, handleNegativeNumbers, input, mem, max_digits,
                   stack, max, exp, passes, result, arg_power, ret_digit,
                   ret_chatgpt_digit>>

\* The result has been used (main asserts on it): the arguments and the
\* returned value are gone.
DigitUsed ==
    /\ pc \in {"get_digit", "chatgpt_get_digit", "get_digits_returned"}
    /\ arg_value' = 0
    /\ arg_power' = 1
    /\ ret_digits' = 0
    /\ ret_digit' = 0
    /\ ret_chatgpt_digit' = 0
    /\ pc' = "idle"
    /\ UNCHANGED <<Base, chatGpt, handleNegativeNumbers, input, mem, max_digits,
                   stack, max, exp, passes, result>>

DigitNext ==
    \/ SetHandleNegativeNumbers
    \/ GetDigit
    \/ ChatGptGetDigit
    \/ GetDigits
    \/ DigitUsed

DigitSpec == Init /\ [][DigitNext]_vars

\* ------------------------------- the digit functions on a T of full width

\* std::numeric_limits<T>::min() and max() of a signed T of ValueBits bits.
TMin == -(2 ^ (ValueBits - 1))
TMax == 2 ^ (ValueBits - 1) - 1

\* The result of a signed operation is representable in its type; if it is
\* not, the behaviour is undefined.
Representable(x) == TMin <= x /\ x <= TMax

\* The place values get_power can return for a value: Base^0 .. Base^K, K the
\* value's digit count, as far as the place value type holds them.
PlaceValues(value) ==
    {p \in 1..TMax : \E n \in 0..get_digits(value) : p = Base ^ n}

\* sort.get_digits(value) for any value of T: "value /= Base; value *= -1".
WideGetDigits ==
    /\ pc = "idle"
    /\ \E v \in TMin..TMax :
          /\ arg_value' = v
          /\ IF v < 0 /\ ~(v > -Base) /\ ~Representable(-1 * CDiv(v, Base))
             THEN pc' = "undefined" /\ ret_digits' = ret_digits
             ELSE pc' = "get_digits_returned" /\ ret_digits' = get_digits(v)
    /\ UNCHANGED <<Base, chatGpt, handleNegativeNumbers, input, mem, max_digits,
                   stack, max, exp, passes, result, arg_power, ret_digit,
                   ret_chatgpt_digit>>

\* sort.get_digit(value, power) for any value of T and a place value of the
\* value: value / -power and value / power are computed in int64_t.
WideGetDigit ==
    /\ pc = "idle"
    /\ \E v \in TMin..TMax : \E p \in PlaceValues(v) :
          /\ arg_value' = v
          /\ arg_power' = p
          /\ IF ~Representable(CDiv(v, IF handleNegativeNumbers /\ v < 0
                                       THEN -p ELSE p))
             THEN pc' = "undefined" /\ ret_digit' = ret_digit
             ELSE pc' = "get_digit" /\ ret_digit' = get_digit(v, p)
    /\ UNCHANGED <<Base, chatGpt, handleNegativeNumbers, input, mem, max_digits,
                   stack, max, exp, passes, result, ret_digits,
                   ret_chatgpt_digit>>

\* An outcome of the undefined behaviour: the division yields some value of
\* T and get_digit returns.  (UndefinedAbort is the other: the division
\* traps.)
WideUndefinedReturn ==
    /\ pc = "undefined"
    /\ ret_digit' \in TMin..TMax
    /\ pc' = "get_digit"
    /\ UNCHANGED <<Base, chatGpt, handleNegativeNumbers, input, mem, max_digits,
                   stack, max, exp, passes, result, arg_value, arg_power,
                   ret_digits, ret_chatgpt_digit>>

WideNext ==
    \/ SetHandleNegativeNumbers
    \/ WideGetDigits
    \/ WideGetDigit
    \/ UndefinedAbort
    \/ WideUndefinedReturn
    \/ DigitUsed

WideSpec == Init /\ [][WideNext]_vars

\* ------------------------------------ a sorter used for call after call

\* operator() has returned and the caller calls the same RadixSorter again.
\* The object has no members but its flags: copy, temp and the other locals
\* of the call are gone, and the caller has taken the returned vector.
Reuse ==
    /\ pc = "done"
    /\ input' = <<>>
    /\ mem' = Copied(<<>>)
    /\ max_digits' = 0
    /\ stack' = <<>>
    /\ max' = 0
    /\ exp' = 0
    /\ passes' = 0
    /\ result' = <<>>
    /\ pc' = "idle"
    /\ UNCHANGED <<Base, chatGpt, handleNegativeNumbers, digitVars>>

\* The older RadixSorter (unnamed/part_002) keeps its scratch buffer in the
\* member std::vector<T> temp, has no flags and sorts non-negative values.

\* temp.resize(size): the first size elements stay, new ones are
\* value-initialised.
Resized(temp, size) ==
    [k \in 1..size |-> IF k <= Len(temp) THEN temp[k] ELSE <<0, 0>>]

\* The scatter of the older helper that does not advance current_position.
OldScatterNoAdvance(part, old, power) ==
    PlaceInRangesNoAdvance(part, power, 1, RangeStarts(CountDigits(part, power)),
                           old)

\* "count them", "compute range starts", "place them in ranges" of the older
\* helper: the same statements as in the present helper, on
\* std::array<size_t, Base> and with get_digit = (value / power) % Base, which
\* is get_digit with handleNegativeNumbers clear.
OldScatter(part, old, power) ==
    PlaceInRanges(part, power, 1, RangeStarts(CountDigits(part, power)), old)

RECURSIVE old_helper(_, _, _, _)
RECURSIVE OldHelperLoop(_, _, _, _, _, _)
\* The older helper(data, size, power), data pointing at offset off of copy:
\* the partition is scattered into temp[0 .. size) and copied back to data.
old_helper(m, off, size, power) ==
    IF size < 2 \/ power < 1 THEN m
    ELSE LET part == Range(m.copy, off, size)
             counts == CountDigits(part, power)
             placed == OldScatter(part, Range(m.temp, 0, size), power)
             back == [m EXCEPT !.temp = WriteRange(@, 0, placed),
                               !.copy = WriteRange(@, off, placed)]
         IN  IF power = 1 THEN back
             ELSE OldHelperLoop(back, off, RangeStarts(counts), counts, 0, power)

\* "sort ranges": for (i = 0; i < Base; ++i)
\*     helper(&data[positions[i]], counts[i], power / Base);
OldHelperLoop(m, off, positions, counts, i, power) ==
    IF i >= Base THEN m
    ELSE OldHelperLoop(old_helper(m, off + positions[i], counts[i],
                                  CDiv(power, Base)),
                       off, positions, counts, i + 1, power)

\* The older operator()(begin, end) on an object whose member temp holds
\* temp0: the returned vector.
OldSorter(s, temp0) ==
    LET m == [Copied(s) EXCEPT !.temp = Resized(temp0, Len(s))]
    IN  old_helper(m, 0, Len(s), get_power(MaxDigits(s))).copy

\* An object of the older class as constructed: temp is empty.
OldConstructed ==
    /\ chatGpt = FALSE
    /\ handleNegativeNumbers = FALSE
    /\ input = <<>>
    /\ mem = Copied(<<>>)
    /\ max_digits = 0
    /\ stack = <<>>
    /\ max = 0
    /\ exp = 0
    /\ passes = 0
    /\ result = <<>>
    /\ pc = "old_idle"
    /\ arg_value = 0
    /\ arg_power = 1
    /\ ret_digits = 0
    /\ ret_digit = 0
    /\ ret_chatgpt_digit = 0

\* What main passes to the older sorter: one non-negative element or more.
OldInputs == Inputs(FALSE, FALSE) \ {<<>>}

\* The older operator() is called: std::vector<T> copy(begin, end);
\* temp.resize(size).
OldCall ==
    /\ pc = "old_idle"
    /\ \E vs \in OldInputs :
          /\ input' = Tagged(vs)
          /\ mem' = [Copied(Tagged(vs)) EXCEPT !.temp = Resized(mem.temp, Len(vs))]
    /\ pc' = "old_operator"
    /\ UNCHANGED <<Base, chatGpt, handleNegativeNumbers, max_digits, stack, max,
                   exp, passes, result, digitVars>>

\* helper(&copy[0], size, get_power(get_max_digits(copy.begin(), copy.end()))).
OldHelper ==
    /\ pc = "old_operator"
    /\ mem' = old_helper(mem, 0, Len(mem.copy), get_power(MaxDigits(mem.copy)))
    /\ pc' = "old_helper_returned"
    /\ UNCHANGED <<Base, chatGpt, handleNegativeNumbers, input, max_digits,
                   stack, max, exp, passes, result, digitVars>>

\* return copy.
OldReturn ==
    /\ pc = "old_helper_returned"
    /\ result' = mem.copy
    /\ pc' = "old_done"
    /\ UNCHANGED <<Base, chatGpt, handleNegativeNumbers, input, mem, max_digits,
                   stack, max, exp, passes, digitVars>>

\* The caller calls the same object again: the member temp is as the call
\* left it, copy is gone and the caller has taken the returned vector.
OldReuse ==
    /\ pc = "old_done"
    /\ input' = <<>>
    /\ mem' = [Copied(<<>>) EXCEPT !.temp = mem.temp]
    /\ result' = <<>>
    /\ pc' = "old_idle"
    /\ UNCHANGED <<Base, chatGpt, handleNegativeNumbers, max_digits, stack, max,
                   exp, passes, digitVars>>

ReuseInit ==
    /\ Base \in 2..MaxBase
    /\ Constructed \/ OldConstructed

ReuseNext ==
    \/ Call
    \/ Step
    \/ Reuse
    \/ OldCall
    \/ OldHelper
    \/ OldReturn
    \/ OldReuse

\* Sorters of either revision, each object called again and again.
ReuseSpec == ReuseInit /\ [][ReuseNext]_vars

\* ------------------------------------------------------------ properties

Sorted(vs) == \A i \in 1..(Len(vs) - 1) : vs[i] <= vs[i + 1]

NonNegative(s) == \A i \in 1..Len(s) : Val(s[i]) >= 0

Count(vs, v) == Cardinality({i \in 1..Len(vs) : vs[i] = v})

\* The rearrangements of a sequence of values.
Rearrangements(vs) ==
    {[i \in 1..Len(vs) |-> vs[f[i]]] : f \in Permutations(1..Len(vs))}

Returned == pc = "done"

\* C1: with the MSD strategy (chatGpt = false, handleNegativeNumbers = false),
\* for every base and every sequence of non-negative integers, the empty and
\* the single-element one included, every adjacent pair (a, b) of the returned
\* sequence satisfies a <= b.
C1_MsdOrdered ==
    (Returned /\ ~chatGpt /\ ~handleNegativeNumbers /\ NonNegative(input))
        => Sorted(Values(result))

\* An MSD call has returned for an input of at least three elements that was
\* not in order and holds a value of more than one digit.
C1_Witness ==
    /\ Returned /\ ~chatGpt /\ ~handleNegativeNumbers
    /\ Len(input) >= 3
    /\ ~Sorted(Values(input))
    /\ \E i \in 1..Len(input) : Val(input[i]) >= Base
    /\ Sorted(Values(result))

\* C2: with the LSD strategy (chatGpt = true), for every base and every
\* sequence of non-negative integers, the empty and the single-element one
\* included, every adjacent pair (a, b) of the result satisfies a <= b.
C2_LsdOrdered ==
    (Returned /\ chatGpt /\ NonNegative(input)) => Sorted(Values(result))

\* An LSD call has returned, after two passes or more, for an input that was
\* not in order.
C2_Witness ==
    /\ Returned /\ chatGpt
    /\ Len(input) >= 3
    /\ ~Sorted(Values(input))
    /\ exp > Base
    /\ Sorted(Values(result))

\* C3: under both strategies, of two input elements with equal values the one
\* that comes first in the input comes first in the returned sequence.
C3_Stable ==
    Returned =>
        \A a, b \in 1..Len(input) :
            (a < b /\ Val(input[a]) = Val(input[b])) =>
                \E i, j \in 1..Len(result) :
                    i < j /\ result[i] = input[a] /\ result[j] = input[b]

\* An MSD call has returned for an out-of-order input with two equal values of
\* more than one digit, which a smaller value followed.
C3_Witness ==
    /\ Returned /\ ~chatGpt
    /\ \E a, b, c \in 1..Len(input) :
          /\ a < b /\ b < c
          /\ Val(input[a]) = Val(input[b])
          /\ Val(input[a]) >= Base
          /\ Val(input[c]) < Val(input[a])
    /\ result # input

\* C4: for every input and either strategy the returned sequence has the
\* input's length and, value by value, as many occurrences as the input.
C4_Permutation ==
    Returned =>
        /\ Len(result) = Len(input)
        /\ \A v \in (-MaxVal)..MaxVal :
              Count(Values(result), v) = Count(Values(input), v)

\* A call has returned a rearrangement of an input that holds a value twice.
C4_Witness ==
    /\ Returned
    /\ Len(input) >= 3
    /\ result # input
    /\ \E a, b \in 1..Len(input) : a # b /\ Val(input[a]) = Val(input[b])
    /\ Len(result) = Len(input)

\* C5: with the MSD strategy and handleNegativeNumbers = true, for every
\* sequence of signed integers the returned sequence is in ascending signed
\* order, every negative value before every non-negative one.
C5_SignedOrdered ==
    (Returned /\ ~chatGpt /\ handleNegativeNumbers) => Sorted(Values(result))

\* A call in negative mode has returned for an out-of-order input that holds
\* a negative value, zero and a positive value.
C5_Witness ==
    /\ Returned /\ ~chatGpt /\ handleNegativeNumbers
    /\ \E a, b, c \in 1..Len(input) :
          Val(input[a]) < 0 /\ Val(input[b]) = 0 /\ Val(input[c]) > 0
    /\ ~Sorted(Values(input))
    /\ Sorted(Values(result))

\* C6: for every base and every sequence of non-negative integers the MSD
\* strategy and the LSD strategy return the same value at every index: what
\* the call returned is what operator() returns for the same input with
\* chatGpt the other way round.
C6_StrategiesAgree ==
    (Returned /\ ~handleNegativeNumbers /\ NonNegative(input))
        => Values(result) = Values(RadixSorter(input, ~chatGpt))

\* An MSD call has returned for an out-of-order input of at least three
\* elements with a value of more than one digit.
C6_Witness ==
    /\ Returned /\ ~chatGpt /\ ~handleNegativeNumbers
    /\ Len(input) >= 3
    /\ ~Sorted(Values(input))
    /\ \E i \in 1..Len(input) : Val(input[i]) >= Base
    /\ Values(result) = Values(RadixSorter(input, TRUE))

\* C7: operator() never writes to the caller's range [begin, end): under
\* either strategy it holds, in every state of the call and after it, the
\* elements it was called with.
C7_CallerUnchanged == mem.caller = input

\* A call of either kind has returned a sequence that differs from the
\* caller's, which is as it was.
C7_Witness ==
    /\ Returned
    /\ result # input
    /\ mem.caller = input
    /\ Len(input) >= 2

\* C8: every call terminates: once operator() is entered it returns.
C8_Terminates == (pc = "operator") ~> Returned

\* A call that recursed through two digit positions or more, or made two LSD
\* passes or more, has returned.
C8_Witness ==
    /\ Returned
    /\ Len(input) >= 2
    /\ \/ ~chatGpt /\ max_digits >= 2 /\ stack = <<>>
       \/ chatGpt /\ exp > Base

\* C9: the returned values depend only on the multiset of the input's values:
\* operator() returns the same sequence of values for the input, for its
\* reverse and for every other rearrangement of it.
C9_OrderIndependent ==
    [](Returned =>
        \A p \in Rearrangements(Values(input)) :
            Values(RadixSorter(Tagged(p), chatGpt)) = Values(result))

\* A call has returned for an input of three different values, not in order.
C9_Witness ==
    /\ Returned
    /\ Len(input) >= 3
    /\ \A a, b \in 1..Len(input) : a # b => Val(input[a]) # Val(input[b])
    /\ ~Sorted(Values(input))
    /\ Cardinality(Rearrangements(Values(input))) >= 6

\* C10: a sequence that is already in non-decreasing order is returned as it
\* is, at every index, and sorting the returned sequence again returns it
\* unchanged, under either strategy.
C10_Idempotent ==
    [](Returned =>
        /\ Sorted(Values(input)) => result = input
        /\ RadixSorter(Tagged(Values(result)), chatGpt) = Tagged(Values(result)))

\* A call has returned for an input already in order that holds a value twice
\* and a value of more than one digit.
C10_Witness ==
    /\ Returned
    /\ Len(input) >= 3
    /\ Sorted(Values(input))
    /\ \E a, b \in 1..Len(input) : a # b /\ Val(input[a]) = Val(input[b])
    /\ \E i \in 1..Len(input) : Val(input[i]) >= Base
    /\ result = input

\* The elements of a buffer, as a set.
ElementsOf(s) == {s[i] : i \in 1..Len(s)}

\* s holds the elements of t, each once (the elements of an input differ in
\* their tags).
Rearranged(s, t) == Len(s) = Len(t) /\ ElementsOf(s) = ElementsOf(t)

\* C11, as stated: with the LSD strategy a call whose input holds a negative
\* value aborts: it does not return a result sequence to the caller.
C11_LsdNegativeAborts ==
    (chatGpt /\ ~NonNegative(input)) => ~Returned

\* C11, as the code has it: with the LSD strategy a call whose input holds a
\* negative value is not signaled.  It never aborts or leaves defined
\* behaviour, and what it returns has the input's length and the input's
\* elements, each once; the order need not be ascending.
C11_LsdNegativeReturns ==
    (chatGpt /\ ~NonNegative(input)) =>
        /\ pc \notin {"aborted", "undefined"}
        /\ Returned => Rearranged(result, input)

\* An LSD call has returned, after two passes, for an input with a negative
\* value, and the returned sequence is not in ascending order.
C11_Witness ==
    /\ Returned /\ chatGpt
    /\ ~NonNegative(input)
    /\ passes >= 2
    /\ Rearranged(result, input)
    /\ ~Sorted(Values(result))

\* A helper call is about to count the digits of its partition.
AtCount ==
    /\ pc = "helper"
    /\ stack # <<>>
    /\ ~Top.entered
    /\ Top.size >= 2 /\ Top.power >= 1

\* C12: with the MSD strategy in non-negative mode a call whose input holds
\* negative elements still completes: no digit computed for an element falls
\* outside the index range of counts and positions, the call neither aborts
\* nor leaves defined behaviour, and what it returns has the input's length.
C12_NegativeDigitsInRange ==
    (~chatGpt /\ ~handleNegativeNumbers) =>
        /\ AtCount => DigitsInRange(Range(mem[Top.data], Top.off, Top.size),
                                    Top.power)
        /\ pc \notin {"undefined", "aborted"}
        /\ Returned => Len(result) = Len(input)

\* C13: a sort with Base < 2 is rejected before any digit math, so that no
\* call with Base = 1 is in a loop that cannot end: neither in radix_sort's
\* pass loop nor in get_digits' loop is there a state where the loop's
\* condition holds and its step leaves the variables of the condition as
\* they are.
C13_BaseGuarded ==
    Base < 2 =>
        /\ ~(pc = "radix_sort" /\ LoopCondition(max, exp) /\ NextExp(exp) = exp)
        /\ ~(pc = "get_digits" /\ arg_value >= Base
                               /\ CDiv(arg_value, Base) = arg_value)

\* C14: in non-negative mode, for every value >= 0, every place value p >= 1
\* and every base >= 2, get_digit(value, p) is (value div p) mod Base, which
\* is 0 whenever p > value, and get_digit<Base> of the LSD sorter returns the
\* same digit for the same arguments.
C14_DigitNonNegative ==
    (pc \in {"get_digit", "chatgpt_get_digit"} /\ ~handleNegativeNumbers
        /\ arg_value >= 0) =>
        /\ ret_digit = (arg_value \div arg_power) % Base
        /\ arg_power > arg_value => ret_digit = 0
        /\ pc = "chatgpt_get_digit" => ret_chatgpt_digit = ret_digit

\* Both functions have returned a digit other than 0 for a value of several
\* digits at a place value above 1.
C14_Witness ==
    /\ pc = "chatgpt_get_digit" /\ ~handleNegativeNumbers
    /\ arg_value >= Base * Base
    /\ arg_power > 1
    /\ ret_digit > 0
    /\ ret_chatgpt_digit = ret_digit
    /\ CMod(arg_value, Base) # ret_digit

\* C15: in negative mode, for every place value p >= 1, get_digit(value, p)
\* is Base + ((value div p) mod Base) for value >= 0 and
\* Base - ((|value| div p) mod Base) for value < 0; zero and every value
\* with |value| < p have the digit Base.
C15_DigitNegativeMode ==
    (pc = "get_digit" /\ handleNegativeNumbers) =>
        /\ arg_value >= 0 =>
              ret_digit = Base + ((arg_value \div arg_power) % Base)
        /\ arg_value < 0 =>
              ret_digit = Base - (((-arg_value) \div arg_power) % Base)
        /\ Abs(arg_value) < arg_power => ret_digit = Base

\* get_digit has returned a digit below Base for a negative value of several
\* digits at a place value above 1.
C15_Witness ==
    /\ pc = "get_digit" /\ handleNegativeNumbers
    /\ arg_value <= -(Base * Base)
    /\ arg_power > 1
    /\ ret_digit < Base
    /\ ret_digit = Base - (((-arg_value) \div arg_power) % Base)

\* C16: for every value v and every base >= 2, get_digits(v) is the number of
\* base-Base digits of |v|: 1 for 0 and for every v with |v| < Base, and
\* otherwise the least d with Base^d > |v|; v and -v have the same result.
C16_DigitCount ==
    pc = "get_digits_returned" =>
        /\ ret_digits >= 1
        /\ Base ^ ret_digits > Abs(arg_value)
        /\ ret_digits > 1 => Base ^ (ret_digits - 1) <= Abs(arg_value)
        /\ Abs(arg_value) < Base => ret_digits = 1
        /\ get_digits(-arg_value) = ret_digits

\* get_digits has returned 3 or more for a negative value.
C16_Witness ==
    /\ pc = "get_digits_returned"
    /\ arg_value < 0
    /\ ret_digits >= 3
    /\ Base ^ ret_digits > -arg_value

\* A helper call is about to take its else branch (size < 2 or power < 1).
AtBaseCase ==
    /\ pc = "helper"
    /\ stack # <<>>
    /\ ~Top.entered
    /\ ~(Top.size >= 2 /\ Top.power >= 1)

\* The top-level helper call has returned; operator() has yet to return.
HelperDone == pc = "helper" /\ stack = <<>>

\* The buffer operator() returns holds the input's elements, each once, in
\* ascending order.
ReturnedBufferSorted ==
    LET r == mem[ReturnedBuffer(max_digits)]
    IN  Rearranged(r, input) /\ Sorted(Values(r))

\* A helper call that takes its else branch has an even max_digits exactly
\* when its data is not the buffer operator() returns.
BaseCaseParity ==
    AtBaseCase =>
        ((Top.max_digits % 2 = 0) <=> (Top.data # ReturnedBuffer(max_digits)))

\* The else branch writes to temp exactly when max_digits is even, and
\* leaves the partition's elements in the buffer operator() returns.
BaseCaseStep ==
    AtBaseCase =>
        LET f == Top
            part == Range(mem[f.data], f.off, f.size)
        IN  /\ mem' # mem => f.max_digits % 2 = 0
            /\ f.max_digits % 2 = 0 => Range(mem'[f.temp], f.off, f.size) = part
            /\ Range(mem'[ReturnedBuffer(max_digits)], f.off, f.size) = part

\* C17: once the top-level MSD helper call has returned, the buffer the
\* driver returns (copy for an odd max_digits, temp for an even one) holds
\* the sorted permutation of the input at every index, the ranges whose
\* recursion stopped early included; the base case copies data to temp
\* exactly when its max_digits is even, which is exactly when the elements
\* would otherwise sit in the buffer that is not returned.
C17_ReturnedBufferComplete ==
    /\ []((HelperDone => ReturnedBufferSorted) /\ BaseCaseParity)
    /\ [][BaseCaseStep]_vars

\* The top-level helper call has returned for an out-of-order input of two
\* digit positions or more; the two buffers differ and the returned one is
\* the sorted one.
C17_Witness ==
    /\ HelperDone
    /\ max_digits >= 2
    /\ Len(input) >= 3
    /\ ~Sorted(Values(input))
    /\ mem.copy # mem.temp
    /\ ReturnedBufferSorted

\* The place of the element e in the sequence s.
PlaceOf(s, e) == CHOOSE k \in 1..Len(s) : s[k] = e

\* What one scatter pass of a helper call does: part is the data partition
\* before the step, out the temp partition after it, counts and positions the
\* arrays of the call.
ScatterPass(f, part, out, counts, positions) ==
    LET dig(e) == get_digit(Val(e), f.power)
    IN  /\ positions[0] = 0
        /\ \A d \in 1..(2 * Base - 1) :
              positions[d] = positions[d - 1] + counts[d - 1]
        /\ positions[2 * Base - 1] + counts[2 * Base - 1] = f.size
        /\ Rearranged(out, part)
        /\ \A k \in 1..f.size : \A d \in Buckets :
              dig(out[k]) = d <=> (positions[d] < k /\ k <= positions[d] + counts[d])
        /\ \A i, j \in 1..f.size :
              i < j =>
                  /\ dig(out[i]) <= dig(out[j])
                  /\ dig(out[i]) = dig(out[j])
                        => PlaceOf(part, out[i]) < PlaceOf(part, out[j])

\* The step of a helper call from its count to the end of its placement.
ScatterStep ==
    AtCount =>
        LET f == Top
            part == Range(mem[f.data], f.off, f.size)
            out == Range(mem'[f.temp], f.off, f.size)
            counts == CountDigits(part, f.power)
            positions == RangeStarts(counts)
        IN  /\ ScatterPass(f, part, out, counts, positions)
            /\ mem'[f.data] = mem[f.data]
            /\ f.power > 1 =>
                  /\ stack'[Len(stack)].counts = counts
                  /\ stack'[Len(stack)].positions = positions

\* C18: one MSD scatter pass over a partition is a stable bucket partition:
\* positions[] are the exclusive prefix sums of counts[], the counts sum to
\* the partition size, every scratch slot of the partition is written exactly
\* once (bucket d fills the slots from positions[d] up to the next bucket's
\* start), and afterwards the scratch range is grouped by ascending digit,
\* elements of equal digit in their order in the data range.
C18_StableScatter == [][ScatterStep]_vars

\* A helper call has just placed a partition of three elements, two of them
\* in one bucket and one in a later bucket, and the placement moved them.
C18_Witness ==
    /\ pc = "helper"
    /\ stack # <<>>
    /\ Top.entered /\ Top.i = 0
    /\ Top.size >= 3
    /\ \E d, e \in Buckets : d < e /\ Top.counts[d] >= 2 /\ Top.counts[e] >= 1
    /\ Range(mem[Top.temp], Top.off, Top.size)
           # Range(mem[Top.data], Top.off, Top.size)
    /\ Rearranged(Range(mem[Top.temp], Top.off, Top.size),
                  Range(mem[Top.data], Top.off, Top.size))

\* The LSD sorter is in its loop, or has returned from it.
InPassLoop ==
    /\ chatGpt
    /\ Len(input) >= 2
    /\ pc \in {"radix_sort", "done"}

\* C19: after the i-th LSD counting pass (place value Base^(i-1)) the array
\* is in non-decreasing order of (value mod Base^i), elements of equal
\* (value mod Base^i) in their order in the input; the place values are
\* Base^0, Base^1, ... in this order: pass number passes + 1 uses
\* exp = Base^passes.
C19_PassInvariant ==
    InPassLoop =>
        /\ exp = Base ^ passes
        /\ LET a == mem[RadixSortRange]
               key(e) == Val(e) % (Base ^ passes)
           IN  /\ Rearranged(a, input)
               /\ \A i, j \in 1..Len(a) :
                     i < j =>
                         /\ key(a[i]) <= key(a[j])
                         /\ key(a[i]) = key(a[j]) => Tag(a[i]) < Tag(a[j])

\* After the first of several passes the array has been rearranged and is in
\* order of its lowest digit, not yet of its values.
C19_Witness ==
    /\ chatGpt /\ pc = "radix_sort"
    /\ passes = 1
    /\ LoopCondition(max, exp)
    /\ mem[RadixSortRange] # input
    /\ ~Sorted(Values(mem[RadixSortRange]))
    /\ \A i \in 1..(Len(input) - 1) :
          Val(mem[RadixSortRange][i]) % Base <= Val(mem[RadixSortRange][i + 1]) % Base

\* C20, as stated: the LSD sorter performs exactly K passes, K the digit
\* count of the maximum element (zero has 1 digit).
C20_ExactlyKPasses ==
    (Returned /\ chatGpt /\ Len(input) >= 2) => passes = get_digits(max)

\* The passes radix_sort makes for a maximum m: none for 0.
PassesFor(m) == IF m = 0 THEN 0 ELSE get_digits(m)

\* One pass covers the entire array: it is pass number passes + 1, at place
\* value Base^passes, and leaves all the elements of the array in ascending
\* order of their digit at this place value.
WholeArrayPass ==
    (pc = "radix_sort" /\ pc' = "radix_sort") =>
        LET a == mem'[RadixSortRange]
        IN  /\ passes' = passes + 1
            /\ exp = Base ^ passes
            /\ Rearranged(a, input)
            /\ \A i \in 1..(Len(a) - 1) :
                  (Val(a[i]) \div exp) % Base <= (Val(a[i + 1]) \div exp) % Base

\* C20, as the code has it: for an input of two or more elements whose
\* maximum is 1 or more the LSD sorter performs exactly K passes, K the digit
\* count of the maximum, one for each place value Base^0 .. Base^(K-1),
\* every pass covering the entire array; it performs no pass when the
\* maximum is 0, nor when the input has fewer than two elements.
C20_PassCount ==
    /\ []((Returned /\ chatGpt) =>
             passes = IF Len(input) < 2
                      THEN 0
                      ELSE PassesFor(Accumulate(Values(input), Val(input[1]), TRUE)))
    /\ [][WholeArrayPass]_vars

\* An LSD call has returned after two passes or more, as many as its maximum
\* has digits.
C20_Witness ==
    /\ Returned /\ chatGpt
    /\ Len(input) >= 2
    /\ passes >= 2
    /\ passes = get_digits(max)
    /\ exp = Base ^ passes

\* What one pass of counting_sort at place value e does: s is [begin, end)
\* before the pass and out after it, ends the ending positions of the pass.
CountingPass(s, out, e, ends) ==
    LET dig(x) == (Val(x) \div e) % Base
        upTo(d) == Cardinality({k \in 1..Len(s) : dig(s[k]) <= d})
        below(d) == Cardinality({k \in 1..Len(s) : dig(s[k]) < d})
    IN  /\ \A d \in Digits : ends[d] = upTo(d)
        /\ ends[Base - 1] = Len(s)
        /\ Rearranged(out, s)
        /\ \A k \in 1..Len(s) : \A d \in Digits :
              dig(out[k]) = d <=> (below(d) < k /\ k <= ends[d])
        /\ \A d \in Digits : \A k \in 1..Len(s) :
              (dig(s[k]) = d /\ \A l \in (k + 1)..Len(s) : dig(s[l]) # d)
                  => out[ends[d]] = s[k]
        /\ \A i, j \in 1..Len(s) :
              i < j =>
                  /\ dig(out[i]) <= dig(out[j])
                  /\ dig(out[i]) = dig(out[j])
                        => PlaceOf(s, out[i]) < PlaceOf(s, out[j])

\* The step of radix_sort's loop that runs one counting_sort.
CountingPassStep ==
    (pc = "radix_sort" /\ pc' = "radix_sort") =>
        LET s == mem[RadixSortRange]
        IN  /\ CountingPass(s, mem'[RadixSortRange], exp,
                            EndingPositions(CountByDigit(s, exp)))
            /\ mem'.caller = mem.caller

\* C21: one LSD counting_sort pass is a stable sort by the current digit: the
\* counts become inclusive prefix sums (bucket end offsets), the input is
\* walked from its last element to its first and each element written at its
\* bucket's pre-decremented end offset, so that every scratch slot is written
\* exactly once, elements of equal digit keep the order they had when the
\* pass began, and [begin, end) itself holds the result of the pass.
C21_StableCountingPass == [][CountingPassStep]_vars

\* The second pass of an LSD call has moved elements: the array is grouped
\* by the second digit, with two elements in one bucket and a third in a
\* later one, and is not what the first pass left.
C21_Witness ==
    /\ chatGpt /\ pc = "radix_sort"
    /\ passes = 2
    /\ Len(input) >= 3
    /\ LET a == mem[RadixSortRange]
           dig(x) == (Val(x) \div Base) % Base
       IN  /\ a # counting_sort(input, 1)
           /\ \E i, j, k \in 1..Len(a) :
                 /\ i < j /\ j < k
                 /\ dig(a[i]) = dig(a[j])
                 /\ dig(a[j]) < dig(a[k])

\* The digits helper uses as indexes for the partition it is about to count
\* and place.
PartitionDigits ==
    {get_digit(Val(mem[Top.data][Top.off + k]), Top.power) : k \in 1..Top.size}

\* C22: under the sort's preconditions (non-negative elements in non-negative
\* mode, any signed elements in negative mode) every digit the MSD sorter
\* computes and uses as an index into counts, positions or current_position
\* lies in [0, Base) in non-negative mode and in [1, 2 * Base - 1] in
\* negative mode: no access to a bucket array is out of bounds.
C22_DigitsIndexBuckets ==
    AtCount =>
        /\ PartitionDigits \subseteq Buckets
        /\ ~handleNegativeNumbers => PartitionDigits \subseteq 0..(Base - 1)
        /\ handleNegativeNumbers => PartitionDigits \subseteq 1..(2 * Base - 1)

\* A helper call in negative mode is about to count a partition with a
\* digit below Base (of a negative element) and a digit above Base.
C22_Witness ==
    /\ AtCount /\ handleNegativeNumbers
    /\ \E d, e \in PartitionDigits : d < Base /\ Base < e
    /\ \E k \in 1..Top.size : Val(mem[Top.data][Top.off + k]) < 0

\* In negative mode a helper call is about to partition at the most
\* significant digit position of the largest-magnitude element, place value
\* Base^(max_digits - 1): the call one level below the top-level one.
AtTopDigit ==
    /\ AtCount
    /\ handleNegativeNumbers
    /\ Len(stack) = 2
    /\ Top.power = Base ^ (max_digits - 1)

\* The bucket that holds slot k of a partition with these range starts and
\* counts.
BucketOf(k, positions, counts) ==
    CHOOSE d \in Buckets : positions[d] < k /\ k <= positions[d] + counts[d]

\* C23, as stated: in negative mode, after the MSD partitioning pass at the
\* top digit level (the most significant digit position of the
\* largest-magnitude element), every negative element lies in a bucket
\* strictly before every bucket that holds a non-negative element.
NegativesStrictlyBefore ==
    AtTopDigit =>
        LET f == Top
            counts == CountDigits(Range(mem[f.data], f.off, f.size), f.power)
            positions == RangeStarts(counts)
            out == Range(mem'[f.temp], f.off, f.size)
        IN  \A i, j \in 1..f.size :
                (Val(out[i]) < 0 /\ Val(out[j]) >= 0)
                    => BucketOf(i, positions, counts) < BucketOf(j, positions, counts)

C23_NegativesStrictlyBefore == [][NegativesStrictlyBefore]_vars

\* After that pass the negative elements are in the buckets 1 .. Base and the
\* non-negative ones in the buckets Base .. 2 * Base - 1; a negative element
\* whose magnitude reaches the place value is in a bucket below Base.
NegativesNotAfter ==
    AtTopDigit =>
        LET f == Top
            counts == CountDigits(Range(mem[f.data], f.off, f.size), f.power)
            positions == RangeStarts(counts)
            out == Range(mem'[f.temp], f.off, f.size)
            bucket(k) == BucketOf(k, positions, counts)
        IN  /\ f.size = Len(input) /\ f.off = 0
            /\ Rearranged(out, input)
            /\ \A i \in 1..f.size :
                  /\ Val(out[i]) < 0 => bucket(i) \in 1..Base
                  /\ Val(out[i]) >= 0 => bucket(i) \in Base..(2 * Base - 1)
                  /\ (Val(out[i]) < 0 /\ -Val(out[i]) >= f.power)
                        => bucket(i) < Base
                  /\ Abs(Val(out[i])) < f.power => bucket(i) = Base

\* C23, as the code has it: in negative mode, after the MSD partitioning pass
\* at the most significant digit position of the largest-magnitude element,
\* no negative element lies in a bucket after a bucket that holds a
\* non-negative element: the negative elements are in the buckets 1 .. Base,
\* the non-negative ones in the buckets Base .. 2 * Base - 1.  Bucket Base
\* holds the elements of either sign whose magnitude is below the place
\* value; every negative element whose magnitude reaches the place value
\* lies in a bucket strictly before every non-negative element.
C23_NegativesNotAfter == [][NegativesNotAfter]_vars

\* The pass at the top digit has just placed a negative element in a bucket
\* below Base, and a negative and a non-negative element in bucket Base.
C23_Witness ==
    /\ pc = "helper" /\ handleNegativeNumbers
    /\ Len(stack) = 2
    /\ Top.entered /\ Top.i = 0
    /\ Top.power = Base ^ (max_digits - 1)
    /\ \E d \in 1..(Base - 1) : Top.counts[d] >= 1
    /\ Top.counts[Base] >= 2
    /\ LET out == Range(mem[Top.temp], Top.off, Top.size)
       IN  \E i, j, k \in 1..Top.size :
              /\ Val(out[i]) < 0 /\ get_digit(Val(out[i]), Top.power) < Base
              /\ Val(out[j]) < 0 /\ get_digit(Val(out[j]), Top.power) = Base
              /\ Val(out[k]) >= 0 /\ get_digit(Val(out[k]), Top.power) = Base

\* The partition of a helper call that has just been made agrees on every
\* digit above the call's place value.
PartitionAgrees ==
    (pc = "helper" /\ stack # <<>> /\ ~Top.entered) =>
        LET part == Range(mem[Top.data], Top.off, Top.size)
        IN  \A i, j \in 1..Top.size :
                Val(part[i]) \div (Top.power * Base)
                    = Val(part[j]) \div (Top.power * Base)

\* The buckets a helper call has laid out for its recursive calls are in
\* ascending order: every element of an earlier bucket is smaller than every
\* element of a later one.
SiblingsAscend ==
    (pc = "helper" /\ stack # <<>> /\ Top.entered) =>
        LET f == Top
            out == Range(mem[f.temp], f.off, f.size)
        IN  \A i, j \in 1..f.size :
                BucketOf(i, f.positions, f.counts) < BucketOf(j, f.positions, f.counts)
                    => Val(out[i]) < Val(out[j])

\* C24: in an MSD sort (non-negative mode) every partition handed to a
\* recursive helper call at place value p consists only of elements that
\* agree on all more significant digits (equal value div (p * Base)), and
\* sibling partitions are laid out in ascending order: every element of an
\* earlier bucket is smaller than every element of a later bucket.
C24_PartitionsByPrefix ==
    (~chatGpt /\ ~handleNegativeNumbers) => (PartitionAgrees /\ SiblingsAscend)

\* A recursive call has been handed the second of two buckets its caller
\* laid out, a partition of two elements or more, below the top digit.
C24_Witness ==
    /\ ~chatGpt /\ ~handleNegativeNumbers
    /\ AtCount
    /\ Len(stack) >= 3
    /\ Top.off > 0
    /\ Top.power < Base ^ (max_digits - 1)
    /\ \A k \in 1..Top.size :
          Val(mem[Top.data][Top.off + k]) \div (Top.power * Base)
              > Val(mem[Top.data][1]) \div (Top.power * Base)

\* The digit count of the input's largest-magnitude element: the least
\* d >= 1 with Base^d above every magnitude.
LargestDigitCount ==
    CHOOSE d \in 1..(MaxVal + 1) :
        /\ \A i \in 1..Len(input) : Base ^ d > Abs(Val(input[i]))
        /\ d > 1 => \E i \in 1..Len(input) : Base ^ (d - 1) <= Abs(Val(input[i]))

\* C25: MSD recursion is bounded by the digit count K of the
\* largest-magnitude element: helper is never invoked with a place value
\* below 1, the place value is divided by Base at each level (Base^K at the
\* top-level call, depth 0), and no helper invocation is nested deeper than
\* depth K.
C25_DepthBounded ==
    (pc = "helper" /\ stack # <<>>) =>
        /\ max_digits = LargestDigitCount
        /\ Len(stack) - 1 <= LargestDigitCount
        /\ \A k \in 1..Len(stack) :
              /\ stack[k].power >= 1
              /\ stack[k].power = Base ^ (LargestDigitCount - (k - 1))
              /\ k > 1 => stack[k].power * Base = stack[k - 1].power

\* A helper call at depth K, K >= 2, is about to partition two elements or
\* more at place value 1.
C25_Witness ==
    /\ AtCount
    /\ max_digits >= 2
    /\ Len(stack) - 1 = max_digits
    /\ Top.power = 1

\* The top-level helper call has place value Base^K, above every magnitude
\* of the input, and every element has the same digit there.
TopLevelPower ==
    (pc = "helper" /\ stack # <<>>) =>
        /\ stack[1].power = Base ^ LargestDigitCount
        /\ stack[1].off = 0 /\ stack[1].size = Len(input)
        /\ \A i \in 1..Len(input) :
              /\ Abs(Val(input[i])) < stack[1].power
              /\ get_digit(Val(input[i]), stack[1].power)
                    = IF handleNegativeNumbers THEN Base ELSE 0

\* The elements a helper call is about to scatter have been scattered once by
\* each call below it on the stack, and by no more than K calls.
ScatteredByCallers ==
    AtCount =>
        /\ Len(stack) - 1 <= LargestDigitCount
        /\ \A k \in 1..(Len(stack) - 1) :
              /\ stack[k].entered
              /\ stack[k].off <= Top.off
              /\ Top.off + Top.size <= stack[k].off + stack[k].size
              /\ stack[k].temp = stack[k + 1].data

\* The first scatter copies the whole array to temp in unchanged order; the
\* scatter at depth K is scatter number K + 1 of its elements.
ScatterCount ==
    AtCount =>
        LET f == Top
            part == Range(mem[f.data], f.off, f.size)
            out == Range(mem'[f.temp], f.off, f.size)
        IN  /\ Len(stack) = 1 => (mem'.temp = input /\ mem'.copy = input)
            /\ Len(stack) = LargestDigitCount + 1 =>
                  (Rearranged(out, part) /\ stack' = Pop)

\* C26: the top-level MSD call uses place value Base^K, K the digit count of
\* the largest-magnitude element, which exceeds every element's magnitude:
\* at the top level every element has the same digit (0 in non-negative
\* mode, Base in negative mode), the first scatter copies the whole array
\* into the scratch buffer in unchanged order, and an element on a
\* full-depth path is scattered K + 1 times, once at each depth 0 .. K.
C26_TopLevelPass ==
    /\ [](TopLevelPower /\ ScatteredByCallers)
    /\ [][ScatterCount]_vars

\* A helper call at depth K, K >= 2, is about to scatter two different
\* elements that each of the K calls below it has scattered; the top-level
\* call left the input's order in one of the buffers.
C26_Witness ==
    /\ AtCount
    /\ max_digits >= 2
    /\ Len(stack) = max_digits + 1
    /\ \A k \in 1..(Len(stack) - 1) : stack[k].entered
    /\ Val(mem[Top.data][Top.off + 1]) # Val(mem[Top.data][Top.off + 2])
    /\ ~Sorted(Values(input))

\* The working buffers of operator().
WorkingBuffers == {"copy", "temp"}

\* Slot k of a buffer is outside the partition at offset off of size size.
Outside(k, off, size) == k <= off \/ k > off + size

\* The memory with the slots of the working buffers outside the partition
\* overwritten.
Blanked(m, off, size) ==
    [b \in DOMAIN m |->
        IF b \in WorkingBuffers
        THEN [k \in 1..Len(m[b]) |->
                 IF Outside(k, off, size) THEN <<0, 0>> ELSE m[b][k]]
        ELSE m[b]]

\* The partition of a call lies inside its caller's partition.
FramesNested ==
    (pc = "helper") =>
        \A k \in 2..Len(stack) :
            /\ stack[k - 1].off <= stack[k].off
            /\ stack[k].off + stack[k].size <= stack[k - 1].off + stack[k - 1].size

\* A helper call that has just been made, run to its return: the slots
\* outside its partition are as they were, and the slots inside do not
\* depend on what the slots outside hold.
WholeCallInRange ==
    (pc = "helper" /\ stack # <<>> /\ ~Top.entered) =>
        LET f == Top
            after == helper(mem, f.data, f.temp, f.off, f.size, f.max_digits,
                            f.power)
            other == helper(Blanked(mem, f.off, f.size), f.data, f.temp, f.off,
                            f.size, f.max_digits, f.power)
        IN  /\ after.caller = mem.caller
            /\ \A b \in WorkingBuffers :
                  /\ Len(after[b]) = Len(mem[b])
                  /\ \A k \in 1..Len(mem[b]) :
                        Outside(k, f.off, f.size) => after[b][k] = mem[b][k]
                  /\ Range(other[b], f.off, f.size) = Range(after[b], f.off, f.size)

\* Every step of a helper call writes inside the call's partition only.
WritesInRange ==
    (pc = "helper" /\ stack # <<>>) =>
        /\ mem'.caller = mem.caller
        /\ \A b \in WorkingBuffers :
              /\ Len(mem'[b]) = Len(mem[b])
              /\ \A k \in 1..Len(mem[b]) :
                    Outside(k, Top.off, Top.size) => mem'[b][k] = mem[b][k]

\* C27: a helper call for a partition at offset o with size n reads and
\* writes only the indices o .. o + n - 1 of the two working buffers: every
\* slot of either buffer outside that range is unchanged when the call, all
\* its recursive calls and the base-case copy included, returns.
C27_HelperFrame ==
    /\ [](FramesNested /\ WholeCallInRange)
    /\ [][WritesInRange]_vars

\* The recursive call for a bucket of two elements or more that does not
\* start its caller's partition has returned: it has rearranged its range,
\* and the slot before the range holds an element of the input in both
\* buffers.
C27_Witness ==
    /\ pc = "helper" /\ stack # <<>>
    /\ Top.entered /\ Top.i >= 1
    /\ LET f == Top
           d == f.i - 1
       IN  /\ f.counts[d] >= 2
           /\ f.positions[d] > 0
           /\ Range(mem[f.data], f.off + f.positions[d], f.counts[d])
                 # Range(mem[f.temp], f.off + f.positions[d], f.counts[d])
           /\ mem[f.data][f.off + f.positions[d]] \in ElementsOf(input)
           /\ mem[f.temp][f.off + f.positions[d]] \in ElementsOf(input)

\* C28: for every signed element type T and every value of T, the minimum
\* representable value included, the digit extractor never overflows:
\* get_digits divides by Base before it negates, so that it never negates a
\* value whose negation is not representable, and the quotient value / -power
\* of get_digit in negative mode is representable for every place value from
\* 1 up to Base^K.  No call of get_digits or get_digit leaves defined
\* behaviour.
C28_NoDigitOverflow == pc \notin {"undefined", "aborted"}

\* The later call of the older sorter is under way: what it will return, for
\* the temp the earlier calls left, is what an object with an empty temp
\* returns, the input in ascending order.
OldCallUnaffected ==
    (pc = "old_operator") =>
        LET after == old_helper(mem, 0, Len(mem.copy),
                                get_power(MaxDigits(mem.copy))).copy
        IN  /\ mem.copy = input
            /\ after = OldSorter(input, <<>>)
            /\ Rearranged(after, input) /\ Sorted(Values(after))

\* C29: after any sequence of earlier sort calls on the same sorter instance
\* a sort call returns exactly the output a fresh instance with the same
\* flags returns for the same input: no scratch-buffer content or size left
\* by an earlier call, an earlier call on a longer input included,
\* influences a later result.
C29_ReuseUnaffected ==
    /\ OldCallUnaffected
    /\ pc \in {"old_helper_returned", "old_done"} =>
          mem.copy = OldSorter(input, <<>>)
    /\ pc = "old_done" => result = OldSorter(input, <<>>)
    /\ Returned => result = RadixSorter(input, chatGpt)

\* A call of the older sorter on an out-of-order input of two elements or
\* more is under way on an object whose temp holds what an earlier call on a
\* longer input left: an element that is none of the input's.
C29_Witness ==
    /\ pc = "old_operator"
    /\ Len(input) >= 2
    /\ ~Sorted(Values(input))
    /\ \E k \in 1..Len(mem.temp) :
          /\ Tag(mem.temp[k]) > Len(input)
          /\ Val(mem.temp[k]) > 0
    /\ old_helper(mem, 0, Len(mem.copy), get_power(MaxDigits(mem.copy))).copy
          = OldSorter(input, <<>>)

====
